---- MODULE Spec2Model ----
(***************************************************************************)
(* Plan execution of the agentic coding assistant (src/App.tsx, the App    *)
(* component of lines 1886-2304): handleSendMessage asks the planner for a *)
(* plan, executePlan runs the plan's steps, updateAgentStatus shows which  *)
(* agent is busy, updateFileContent stores what a WRITE_FILE step wrote.   *)
(*                                                                         *)
(* A task of the specification is a step of the plan.  A step is           *)
(*   Queued     while the loop of executePlan has not reached it,          *)
(*   Executing  from updateAgentStatus(agentName, 'Active', ..) (line 2116)*)
(*              to updateAgentStatus(agentName, 'Idle') (line 2138),       *)
(*   Completed  from line 2138 on,                                         *)
(*   Failed     when the loop body threw for it.                           *)
(* The source has no Blocked state, no retry counter and no retry command. *)
(***************************************************************************)
EXTENDS Integers, Sequences, FiniteSets, TLC

\* ------------------------------------------------------------------ bounds

\* Goals the user submits in one run.
MaxGoals == 2

\* addLog calls in one run of the App of src/unnamed/part_000.
MaxLogCalls == 100

\* Commits made in one run of a repository.
MaxCommits == 2

\* Fetches pending at once.
MaxFetches == 2

\* ------------------------------------------------------------- the roster

Roster == {"Orchestrator", "Frontend-Dev", "Backend-Dev", "QA-Tester"}

NoTask == <<>>

initialAgents == [a \in Roster |-> [status |-> "Idle", task |-> NoTask]]

\* ------------------------------------------------------------- the files

NoPath == "(undefined)"

\* Files of initialFiles the model follows, and a path that is no file.
AppTsx == "/src/App.tsx"
PackageJson == "/package.json"
NewTsx == "/src/New.tsx"
NotesMd == "/notes.md"

FilePaths == {AppTsx, PackageJson}

\* The part of a path after its last dot.
Extension(path) ==
    CASE path = AppTsx -> "tsx"
      [] path = NewTsx -> "tsx"
      [] path = PackageJson -> "json"
      [] path = NotesMd -> "md"
      [] OTHER -> ""

\* A content is "initial", "raw" (new content as the planner wrote it) or
\* "pretty" (the same content as prettier prints it).
initialFiles == [p \in FilePaths |-> "initial"]

\* formatCodeWithPrettier: prettier's output for a supported extension, the
\* content itself for any other (and when prettier throws).
formatCodeWithPrettier(content, extension) ==
    IF extension \in {"js", "jsx", "ts", "tsx", "css"}
    THEN IF content = "raw" THEN "pretty" ELSE content
    ELSE content

\* --------------------------------------------------------------- the plan

\* A step of a plan, as JSON.parse returns it.  executePlan reads action and
\* args (from, message, path, content).  id and deps are the task id and the
\* dependency ids of the specification's plan format: the plan is an any[],
\* and executePlan never reads them.
\* message: args.message is a non-empty string.  content: "" when
\* args.content is no string.  path: NoPath when args.path is absent.
Step(id, action, from, message, path, content, deps) ==
    [id |-> id, action |-> action, from |-> from, message |-> message,
     path |-> path, content |-> content, deps |-> deps]

Msg(id, from, deps) == Step(id, "SEND_MESSAGE", from, TRUE, NoPath, "", deps)
Write(id, path, deps) == Step(id, "WRITE_FILE", "", FALSE, path, "raw", deps)
Read(id, path, deps) == Step(id, "READ_FILE", "", FALSE, path, "", deps)
Ask(id, deps) ==
    Step(id, "ask_user_for_clarification", "", FALSE, NoPath, "", deps)

\* The plans the planner answers with: in dependency order and not, with one
\* agent for two steps and with two, with a step that throws first, in the
\* middle and last, with an agent outside the roster, with an id used twice,
\* with a dependency id that is no task, with ids that descend along the
\* array, and with no step.
PlanChain ==
    <<Msg(1, "Orchestrator", {}), Write(2, AppTsx, {1}),
      Write(3, PackageJson, {2})>>
PlanForward == <<Write(1, AppTsx, {2}), Msg(2, "Frontend-Dev", {})>>
PlanSameAgent == <<Write(1, AppTsx, {}), Write(2, NewTsx, {})>>
PlanTwoAgents == <<Write(1, AppTsx, {}), Write(2, PackageJson, {})>>
PlanFailChain ==
    <<Write(1, NoPath, {}), Read(2, AppTsx, {1}), Msg(3, "QA-Tester", {2})>>
PlanFailIndependent ==
    <<Msg(1, "Backend-Dev", {}), Write(2, NoPath, {}),
      Write(3, PackageJson, {1})>>
PlanFailForward == <<Read(1, AppTsx, {2}), Write(2, NoPath, {})>>
PlanUnknownAgent == <<Msg(1, "Ghost", {}), Read(2, AppTsx, {1})>>
PlanDuplicateIds == <<Msg(1, "Orchestrator", {}), Read(1, PackageJson, {})>>
PlanDanglingDep == <<Read(1, AppTsx, {3}), Ask(2, {})>>
PlanIdsDescending == <<Write(2, AppTsx, {}), Write(1, NewTsx, {})>>
PlanEmpty == <<>>

Plans ==
    {PlanChain, PlanForward, PlanSameAgent, PlanTwoAgents, PlanFailChain,
     PlanFailIndependent, PlanFailForward, PlanUnknownAgent,
     PlanDuplicateIds, PlanDanglingDep, PlanIdsDescending, PlanEmpty}

\* What the planner call and the parsing of its answer end in:
\*   "error"   ai.models.generateContent rejects,
\*   "badjson" JSON.parse throws,
\*   "noplan"  parsed.plan is missing or no array,
\*   "plan"    parsed.plan is the array `plan`.
Responses ==
    [kind : {"error", "badjson", "noplan"}, plan : {<<>>}]
        \cup [kind : {"plan"}, plan : Plans]

\* The loop body throws before it sets an agent Active (lines 2105-2114):
\* step.args.path.match of an absent path is a TypeError.
Throws(step) == step.action = "WRITE_FILE" /\ step.path = NoPath

\* Lines 2102-2114: the agent shown for a step.
AgentName(step) ==
    CASE step.action = "SEND_MESSAGE" ->
            IF step.from # "" THEN step.from ELSE "Orchestrator"
      [] step.action = "WRITE_FILE" ->
            IF Extension(step.path) \in {"tsx", "css", "html"}
            THEN "Frontend-Dev" ELSE "Backend-Dev"
      [] OTHER -> "Orchestrator"

\* Lines 2103-2114: the task label shown for a step; '' for an unknown action.
TaskDescription(step) ==
    CASE step.action = "SEND_MESSAGE" -> <<"Sending message">>
      [] step.action = "WRITE_FILE" -> <<"Writing to file", step.path>>
      [] step.action = "READ_FILE" -> <<"Reading file", step.path>>
      [] OTHER -> NoTask

\* updateAgentStatus without the comparison of names: every agent gets the
\* status and the task.
updateAgentStatusAll(ag, agentName, status, task) ==
    [a \in Roster |->
        [status |-> status,
         task |-> IF task # NoTask THEN task
                  ELSE IF status = "Idle" THEN NoTask ELSE ag[a].task]]

\* updateAgentStatus applied to the agents `ag`.
updateAgentStatus(ag, agentName, status, task) ==
    [a \in Roster |->
        IF a = agentName
        THEN [status |-> status,
              task |-> IF task # NoTask THEN task
                       ELSE IF status = "Idle" THEN NoTask ELSE ag[a].task]
        ELSE ag[a]]

\* ------------------------------------------------- the other components

\* No file: the committed files before the repository is initialized.
NoFiles == [p \in {} |-> ""]

\* src/unnamed/part_000.  A log entry is the number of its arrival; the
\* list starts with the five entries of initialTerminalLogs.
initialTerminalLogs == <<1, 2, 3, 4, 5>>

\* prev.slice(-100) keeps the last KeepLogs entries.
KeepLogs == 100

\* s.slice(-n): the last n entries of s, or s when it has no more.
SliceLast(s, n) ==
    IF Len(s) <= n THEN s ELSE SubSeq(s, Len(s) - n + 1, Len(s))

\* The updater of addLog (line 850) for the list prev and a new entry.
addLog(prev, entry) == Append(SliceLast(prev, KeepLogs), entry)

\* The App of src/App.tsx lines 580-718 after initGit ran on mount: every
\* file is untracked, nothing is committed, the remote has one commit.
\* commitMessage: the message is not blank.  fetches: for each pending timer
\* of handleFetch, the count it will report.  fetched: a fetch has completed
\* ('Fetch complete' is in the terminal log).
RemoteCommit == "remote001"

initialScm ==
    [files |-> [p \in FilePaths |-> "initial"],
     originalFileContents |-> NoFiles,
     modifiedFiles |-> {},
     untrackedFiles |-> FilePaths,
     stagedFiles |-> {},
     commits |-> <<>>,
     commitMessage |-> FALSE,
     remoteCommits |-> <<RemoteCommit>>,
     pullableCommits |-> 0,
     fetches |-> <<>>,
     fetched |-> FALSE]

\* -------------------------------------------------------------- the state

\* terminalLogs and agentMessages are lists the handlers only append to and
\* nothing reads back; of them the model keeps, per step, the number of
\* 'Executing action' lines (dispatches).
VARIABLES
    ai,            \* the GoogleGenAI client exists (process.env.API_KEY is set)
    pc,            \* where the handleSendMessage call in flight is suspended
    isLoading,
    agents,
    messages,      \* the chat transcript: the sender of each message and
                   \* whether it shows a plan
    plan,          \* the plan executePlan was called with
    phase,         \* per step of plan: where the loop body is for it
    dispatches,    \* per step of plan: 'Executing action' lines logged for it
    files,
    selectedFile,  \* path and content of the file in the editor, or NoFile
    sentSelected,  \* selectedFile?.path as the call in flight closed over it
    goals,         \* goals submitted so far
    isRepoInitialized,
    committedFiles,  \* content by path of the files as of the last commit
    stagedFiles,
    commits,       \* number of commits of this App's repository
    logs,          \* the terminal log of the App of src/unnamed/part_000
    scm            \* the source control state of the App of lines 580-718

\* The Git state of the App of lines 1886-2304.
workbench == <<isRepoInitialized, committedFiles, stagedFiles, commits>>

\* What handleSendMessage and executePlan do not touch: the repository and
\* the two other App components.
elsewhere == <<workbench, logs, scm>>

\* The state of handleSendMessage and executePlan but the files.
planning ==
    <<ai, pc, isLoading, agents, messages, plan, phase, dispatches,
      sentSelected, goals>>

vars ==
    <<ai, pc, isLoading, agents, messages, plan, phase, dispatches, files,
      selectedFile, sentSelected, goals, elsewhere>>

NoFile == [path |-> NoPath, content |-> ""]

Steps == 1..Len(plan)

Init ==
    /\ ai \in BOOLEAN
    /\ pc = "rest"
    /\ isLoading = FALSE
    /\ agents = initialAgents
    /\ messages = <<>>
    /\ plan = <<>>
    /\ phase = <<>>
    /\ dispatches = <<>>
    /\ files = initialFiles
    /\ selectedFile = NoFile
    /\ sentSelected = NoPath
    /\ goals = 0
    /\ isRepoInitialized = FALSE
    /\ committedFiles = NoFiles
    /\ stagedFiles = {}
    /\ commits = 0
    /\ logs = initialTerminalLogs
    /\ scm = initialScm

\* A message of the transcript.
Message(sender, showsPlan) == [sender |-> sender, showsPlan |-> showsPlan]

\* ------------------------------------------------------ handleSendMessage

\* Submit with a ChatPanel that does not look at loading.
SubmitWhileLoading ==
    /\ goals < MaxGoals
    /\ goals' = goals + 1
    /\ IF ai
       THEN /\ isLoading' = TRUE
            /\ messages' = Append(messages, Message("user", FALSE))
            /\ pc' = "planning"
            /\ sentSelected' = selectedFile.path
       ELSE /\ messages' = Append(messages, Message("system", FALSE))
            /\ UNCHANGED <<isLoading, pc, sentSelected>>
    /\ UNCHANGED <<ai, agents, plan, phase, dispatches, files, selectedFile>>
    /\ UNCHANGED elsewhere

\* ChatPanel.handleSend and handleSendMessage up to its first await (lines
\* 1807-1812, 2148-2227): refused while loading; without a client only an
\* error message is added.
Submit ==
    /\ ~isLoading
    /\ goals < MaxGoals
    /\ goals' = goals + 1
    /\ IF ai
       THEN /\ isLoading' = TRUE
            /\ messages' = Append(messages, Message("user", FALSE))
            /\ pc' = "planning"
            /\ sentSelected' = selectedFile.path
       ELSE /\ messages' = Append(messages, Message("system", FALSE))
            /\ UNCHANGED <<isLoading, pc, sentSelected>>
    /\ UNCHANGED <<ai, agents, plan, phase, dispatches, files, selectedFile>>
    /\ UNCHANGED elsewhere

\* Caught without the finally block.
CaughtNoFinally ==
    /\ messages' = Append(messages, Message("system", FALSE))
    /\ isLoading' = isLoading
    /\ pc' = "rest"

\* The catch and finally blocks of handleSendMessage (lines 2247-2253).
Caught ==
    /\ messages' = Append(messages, Message("system", FALSE))
    /\ isLoading' = FALSE
    /\ pc' = "rest"

\* PlannerResolves with the steps of an accepted plan added to the steps
\* kept from the plan before it.
PlannerResolvesMerging(r) ==
    /\ pc = "planning"
    /\ IF r.kind = "plan"
       THEN /\ messages' = Append(messages, Message("ai", TRUE))
            /\ plan' = plan \o r.plan
            /\ phase' = phase \o [i \in 1..Len(r.plan) |-> "Queued"]
            /\ dispatches' = dispatches \o [i \in 1..Len(r.plan) |-> 0]
            /\ agents' = updateAgentStatus(agents, "Orchestrator", "Active",
                                           <<"Executing generated plan...">>)
            /\ pc' = "prologue1"
            /\ UNCHANGED isLoading
       ELSE /\ Caught
            /\ UNCHANGED <<plan, phase, dispatches, agents>>
    /\ UNCHANGED <<ai, files, selectedFile, sentSelected, goals>>
    /\ UNCHANGED elsewhere

\* The planner call resolves with r and the answer is parsed (lines
\* 2227-2246).  An accepted plan is shown in the transcript and executePlan
\* runs up to its first await (lines 2090-2094).
PlannerResolves(r) ==
    /\ pc = "planning"
    /\ IF r.kind = "plan"
       THEN /\ messages' = Append(messages, Message("ai", TRUE))
            /\ plan' = r.plan
            /\ phase' = [i \in 1..Len(r.plan) |-> "Queued"]
            /\ dispatches' = [i \in 1..Len(r.plan) |-> 0]
            /\ agents' = updateAgentStatus(agents, "Orchestrator", "Active",
                                           <<"Executing generated plan...">>)
            /\ pc' = "prologue1"
            /\ UNCHANGED isLoading
       ELSE /\ Caught
            /\ UNCHANGED <<plan, phase, dispatches, agents>>
    /\ UNCHANGED <<ai, files, selectedFile, sentSelected, goals>>
    /\ UNCHANGED elsewhere

\* ------------------------------------------------------------ executePlan

\* Second await of the prologue (lines 2095-2097).
PrologueDone ==
    /\ pc = "prologue1"
    /\ agents' = updateAgentStatus(agents, "Orchestrator", "Idle", NoTask)
    /\ pc' = "prologue2"
    /\ UNCHANGED <<ai, isLoading, messages, plan, phase, dispatches, files,
                   selectedFile, sentSelected, goals>>
    /\ UNCHANGED elsewhere

\* LoopReaches with the bodies started without awaiting one another (a
\* forEach over async bodies): any step may start once the prologue is over.
LoopReachesNoAwait(i) == pc \in {"prologue2", "loop"}

\* LoopReaches with the loop going on behind a body that threw (the body
\* wrapped in a try whose catch only reports).
LoopReachesPastThrow(i) ==
    IF i = 1 THEN pc = "prologue2"
    ELSE phase[i - 1] \in {"Cooldown", "Failed"}

\* The for loop reaches step i when the await before it resolves: the
\* prologue's second delay for the first step, the delay that ends the body
\* of step i - 1 for any other (lines 2097, 2099, 2139).
LoopReaches(i) ==
    IF i = 1 THEN pc = "prologue2"
    ELSE pc = "loop" /\ phase[i - 1] = "Cooldown"

\* LoopEnds with a body that leaves the loop (a return at its end): the loop
\* is over when the delay that ends any body resolves.
LoopEndsAfterOne ==
    IF Len(plan) = 0 THEN pc = "prologue2"
    ELSE pc = "loop" /\ \E i \in Steps : phase[i] = "Cooldown"

\* The loop is over when the delay that ends the last body resolves.
LoopEnds ==
    IF Len(plan) = 0 THEN pc = "prologue2"
    ELSE pc = "loop" /\ phase[Len(plan)] = "Cooldown"

\* The step whose trailing delay resolved is behind the loop.
Resume(ph) == [j \in DOMAIN ph |-> IF ph[j] = "Cooldown" THEN "Done" ELSE ph[j]]

\* The loop body of step i up to its first await (lines 2100-2117): the
\* action is logged, the agent and the label are computed, which throws for
\* a malformed step, and the agent is set Active.  What is thrown leaves
\* executePlan and is caught by handleSendMessage.
Dispatch(i) ==
    /\ i \in Steps
    /\ phase[i] = "Queued"
    /\ LoopReaches(i)
    /\ dispatches' = [dispatches EXCEPT ![i] = @ + 1]
    /\ IF Throws(plan[i])
       THEN /\ phase' = [Resume(phase) EXCEPT ![i] = "Failed"]
            /\ Caught
            /\ UNCHANGED agents
       ELSE /\ phase' = [Resume(phase) EXCEPT ![i] = "Executing"]
            /\ agents' = updateAgentStatus(agents, AgentName(plan[i]), "Active",
                                           TaskDescription(plan[i]))
            /\ pc' = "loop"
            /\ UNCHANGED <<isLoading, messages>>
    /\ UNCHANGED <<ai, plan, files, selectedFile, sentSelected, goals>>
    /\ UNCHANGED elsewhere

\* The updater of setFiles in updateFileContent (lines 1929-1939): the
\* content is stored when the path is a file of the tree; the editor's file
\* gets the content when the path is the one the call closed over.
StoreFiles(path, content) ==
    IF path \in DOMAIN files THEN [files EXCEPT ![path] = content] ELSE files

StoreSelected(path, content) ==
    IF path \in DOMAIN files /\ sentSelected = path /\ selectedFile # NoFile
    THEN [selectedFile EXCEPT !.content = content]
    ELSE selectedFile

\* The effect of CodeEditor that follows a change of the selected file
\* (lines 1436-1456, 1492-1511, 1942-1959): when the file `sel` the editor is
\* given has another content than it had, the content is pushed into the
\* editor's model, whose change event calls handleFileContentChange, which
\* stores it in the tree `f` under the path of sel unless it is there.
CodeEditorSync(f, sel) ==
    IF /\ sel # NoFile
       /\ sel.content # selectedFile.content
       /\ sel.path \in DOMAIN f
       /\ f[sel.path] # sel.content
    THEN [f EXCEPT ![sel.path] = sel.content]
    ELSE f

\* Finish without updateAgentStatus(agentName, 'Idle').
FinishNoIdle(i) ==
    /\ agents' = agents
    /\ phase' = [phase EXCEPT ![i] = "Cooldown"]

\* Finish with the loop never moving past the body.
FinishStuck(i) ==
    /\ agents' = updateAgentStatus(agents, AgentName(plan[i]), "Idle", NoTask)
    /\ phase' = [phase EXCEPT ![i] = "Executing"]

\* Lines 2138-2139: the agent is set Idle and the trailing delay starts.
Finish(i) ==
    /\ agents' = updateAgentStatus(agents, AgentName(plan[i]), "Idle", NoTask)
    /\ phase' = [phase EXCEPT ![i] = "Cooldown"]

\* updateFileContent awaits prettier for a file with a formatted extension.
Formats(step) ==
    /\ step.path \in DOMAIN files
    /\ Extension(step.path) \in {"js", "ts", "tsx", "jsx", "css"}

\* A WRITE_FILE step that calls updateFileContent (line 2126).
Writes(step) ==
    step.action = "WRITE_FILE" /\ step.path # NoPath /\ step.content # ""

\* The delay of line 2117 resolves and the switch runs (lines 2119-2139).
StepActs(i) ==
    /\ i \in Steps
    /\ pc = "loop"
    /\ phase[i] = "Executing"
    /\ IF Writes(plan[i]) /\ Formats(plan[i])
       THEN /\ phase' = [phase EXCEPT ![i] = "Formatting"]
            /\ UNCHANGED <<agents, files, selectedFile>>
       ELSE /\ Finish(i)
            /\ IF Writes(plan[i])
               THEN /\ files' =
                           CodeEditorSync(
                               StoreFiles(plan[i].path, plan[i].content),
                               StoreSelected(plan[i].path, plan[i].content))
                    /\ selectedFile' =
                           StoreSelected(plan[i].path, plan[i].content)
               ELSE UNCHANGED <<files, selectedFile>>
    /\ UNCHANGED <<ai, pc, isLoading, messages, plan, dispatches,
                   sentSelected, goals>>
    /\ UNCHANGED elsewhere

\* prettier resolves: the formatted content is stored (lines 1926-1939) and
\* the body ends (lines 2128-2139).
FormatDone(i) ==
    /\ i \in Steps
    /\ pc = "loop"
    /\ phase[i] = "Formatting"
    /\ LET final ==
               formatCodeWithPrettier(plan[i].content, Extension(plan[i].path))
       IN /\ files' = CodeEditorSync(StoreFiles(plan[i].path, final),
                                     StoreSelected(plan[i].path, final))
          /\ selectedFile' = StoreSelected(plan[i].path, final)
    /\ Finish(i)
    /\ UNCHANGED <<ai, pc, isLoading, messages, plan, dispatches,
                   sentSelected, goals>>
    /\ UNCHANGED elsewhere

\* After the loop (lines 2142-2143).
EpilogueStart ==
    /\ LoopEnds
    /\ phase' = Resume(phase)
    /\ agents' = updateAgentStatus(agents, "Orchestrator", "Active",
                                   <<"Finalizing plan execution.">>)
    /\ pc' = "epilogue"
    /\ UNCHANGED <<ai, isLoading, messages, plan, dispatches, files,
                   selectedFile, sentSelected, goals>>
    /\ UNCHANGED elsewhere

\* executePlan returns and handleSendMessage's finally block runs (lines
\* 2144-2145, 2251-2253).
EpilogueDone ==
    /\ pc = "epilogue"
    /\ agents' = updateAgentStatus(agents, "Orchestrator", "Idle", NoTask)
    /\ isLoading' = FALSE
    /\ pc' = "rest"
    /\ UNCHANGED <<ai, messages, plan, phase, dispatches, files,
                   selectedFile, sentSelected, goals>>
    /\ UNCHANGED elsewhere

\* ---------------------------------------------------------------- the user

\* A click on a file of the tree: onSelectFile = setSelectedFile (line 2279).
SelectFile(path) ==
    /\ path \in DOMAIN files
    /\ selectedFile' = [path |-> path, content |-> files[path]]
    /\ UNCHANGED <<ai, pc, isLoading, agents, messages, plan, phase,
                   dispatches, files, sentSelected, goals>>
    /\ UNCHANGED elsewhere

Next ==
    \/ Submit
    \/ \E r \in Responses : PlannerResolves(r)
    \/ PrologueDone
    \/ \E i \in Steps : Dispatch(i)
    \/ \E i \in Steps : StepActs(i)
    \/ \E i \in Steps : FormatDone(i)
    \/ EpilogueStart
    \/ EpilogueDone
    \/ \E path \in FilePaths : SelectFile(path)

Spec == Init /\ [][Next]_vars

\* Timers fire and prettier resolves; the user and the planner owe nothing.
FairSpec ==
    /\ Spec
    /\ WF_vars(PrologueDone)
    /\ WF_vars(\E i \in Steps : Dispatch(i))
    /\ WF_vars(\E i \in Steps : StepActs(i))
    /\ WF_vars(\E i \in Steps : FormatDone(i))
    /\ WF_vars(EpilogueStart)
    /\ WF_vars(EpilogueDone)

\* ------------------------------------------ the user at the workbench

\* What the user types into the editor: new text, or the file's first text.
EditContents == {"raw", "initial"}

\* The user changes the text of the open file: the editor's change event
\* calls handleFileContentChange (lines 1489-1496, 1942-1959).
EditFile(content) ==
    /\ selectedFile # NoFile
    /\ selectedFile.path \in DOMAIN files
    /\ content # selectedFile.content
    /\ IF files[selectedFile.path] = content
       THEN UNCHANGED <<files, selectedFile>>
       ELSE /\ files' = [files EXCEPT ![selectedFile.path] = content]
            /\ selectedFile' = [selectedFile EXCEPT !.content = content]
    /\ UNCHANGED <<planning, elsewhere>>

\* handleCreateFile (lines 1961-1976): a new empty file at the root, opened
\* in the editor; refused when the root has the path.
CreateFile(path) ==
    /\ path \notin DOMAIN files
    /\ files' = [p \in DOMAIN files \cup {path} |->
                    IF p = path THEN "" ELSE files[p]]
    /\ selectedFile' = [path |-> path, content |-> ""]
    /\ UNCHANGED <<planning, elsewhere>>

\* gitStatus (lines 2003-2036).
gitStatus ==
    IF ~isRepoInitialized THEN [modified |-> {}, untracked |-> {}]
    ELSE [modified |->
              {p \in DOMAIN files :
                  p \in DOMAIN committedFiles /\ committedFiles[p] # files[p]},
          untracked |-> {p \in DOMAIN files : p \notin DOMAIN committedFiles}]

\* handleInitializeRepo (lines 2038-2050), behind the button shown while
\* there is no repository.
InitializeRepo ==
    /\ ~isRepoInitialized
    /\ committedFiles' = files
    /\ commits' = 1
    /\ isRepoInitialized' = TRUE
    /\ UNCHANGED <<planning, files, selectedFile, stagedFiles, logs, scm>>

\* handleStage (lines 2052-2054), behind the + of an unstaged change.
Stage(path) ==
    /\ path \in (gitStatus.modified \cup gitStatus.untracked) \ stagedFiles
    /\ stagedFiles' = stagedFiles \cup {path}
    /\ UNCHANGED <<planning, files, selectedFile, isRepoInitialized,
                   committedFiles, commits, logs, scm>>

\* handleUnstage (lines 2056-2062), behind the - of a staged change.
Unstage(path) ==
    /\ path \in stagedFiles
    /\ stagedFiles' = stagedFiles \ {path}
    /\ UNCHANGED <<planning, files, selectedFile, isRepoInitialized,
                   committedFiles, commits, logs, scm>>

\* The commit button with a message typed: handleCommitClick and
\* handleCommit (lines 1326-1330, 2064-2078).
Commit ==
    /\ stagedFiles # {}
    /\ commits <= MaxCommits
    /\ commits' = commits + 1
    /\ committedFiles' = files
    /\ stagedFiles' = {}
    /\ UNCHANGED <<planning, files, selectedFile, isRepoInitialized, logs,
                   scm>>

GitNext ==
    \/ \E path \in FilePaths \cup {NotesMd} : SelectFile(path)
    \/ \E content \in EditContents : EditFile(content)
    \/ CreateFile(NotesMd)
    \/ InitializeRepo
    \/ \E path \in FilePaths \cup {NotesMd} : Stage(path)
    \/ \E path \in FilePaths \cup {NotesMd} : Unstage(path)
    \/ Commit

GitSpec == Init /\ [][GitNext]_vars

\* ------------------------------------- the App of src/unnamed/part_000

\* A component calls addLog (lines 848-851).
AddLog ==
    /\ logs[Len(logs)] < Len(initialTerminalLogs) + MaxLogCalls
    /\ logs' = addLog(logs, logs[Len(logs)] + 1)
    /\ UNCHANGED <<planning, files, selectedFile, workbench, scm>>

LogNext == AddLog

LogSpec == Init /\ [][LogNext]_vars

\* ------------------------------- the first App's source control panel

outsideScm == <<planning, files, selectedFile, workbench, logs>>

\* The ids Math.random gives to the local commits (line 687), in the order
\* of the commits.
LocalIds == <<"local1", "local2", "local3", "local4">>

LocalCommits(commitList) ==
    Cardinality({k \in DOMAIN commitList : commitList[k] # RemoteCommit})

\* The git file tracking effect (lines 645-660): the files that have an
\* original, differ from it and are not staged.
trackingEffect(fileContents, originals, staged) ==
    {p \in DOMAIN fileContents :
        /\ p \in DOMAIN originals
        /\ originals[p] # fileContents[p]
        /\ p \notin staged}

\* The effect runs after every render that changed files, the originals or
\* the staged list, and replaces what the handler put in modifiedFiles.
Tracked(s) ==
    [s EXCEPT !.modifiedFiles =
        trackingEffect(s.files, s.originalFileContents, s.stagedFiles)]

\* performCommit (lines 686-694).
performCommit(s, filesToCommit) ==
    [s EXCEPT
        !.commits = <<LocalIds[LocalCommits(s.commits) + 1]>> \o s.commits,
        !.originalFileContents =
            [p \in DOMAIN s.originalFileContents
                    \cup (filesToCommit \cap DOMAIN s.files) |->
                IF p \in filesToCommit \cap DOMAIN s.files
                THEN s.files[p] ELSE s.originalFileContents[p]],
        !.commitMessage = FALSE]

\* handleFileContentChange (lines 678-680): the user edits a file.
ScmEdit(path, content) ==
    /\ path \in DOMAIN scm.files
    /\ scm.files[path] # content
    /\ scm' = Tracked([scm EXCEPT !.files[path] = content])
    /\ UNCHANGED outsideScm

\* The message box (line 382).
ScmMessage ==
    /\ ~scm.commitMessage
    /\ scm' = [scm EXCEPT !.commitMessage = TRUE]
    /\ UNCHANGED outsideScm

\* handleStage (line 683), behind the + of a change (lines 369, 393).
ScmStage(path) ==
    /\ path \in scm.modifiedFiles \cup scm.untrackedFiles
    /\ scm' = Tracked([scm EXCEPT
                  !.stagedFiles = @ \cup {path},
                  !.modifiedFiles = @ \ {path},
                  !.untrackedFiles = @ \ {path}])
    /\ UNCHANGED outsideScm

\* handleUnstage (line 684), behind the - of a staged change.
ScmUnstage(path) ==
    /\ path \in scm.stagedFiles
    /\ scm' = Tracked(
           IF path \in DOMAIN scm.originalFileContents
           THEN [scm EXCEPT !.stagedFiles = @ \ {path},
                            !.modifiedFiles = @ \cup {path}]
           ELSE [scm EXCEPT !.stagedFiles = @ \ {path},
                            !.untrackedFiles = @ \cup {path}])
    /\ UNCHANGED outsideScm

\* handleStageAll (line 685).
ScmStageAll ==
    /\ scm' = Tracked([scm EXCEPT
                  !.stagedFiles = @ \cup scm.modifiedFiles
                                    \cup scm.untrackedFiles,
                  !.modifiedFiles = {},
                  !.untrackedFiles = {}])
    /\ UNCHANGED outsideScm

\* handleCommit (line 695).
ScmCommit ==
    /\ scm.stagedFiles # {}
    /\ scm.commitMessage
    /\ LocalCommits(scm.commits) < MaxCommits
    /\ scm' = Tracked([performCommit(scm, scm.stagedFiles)
                          EXCEPT !.stagedFiles = {}])
    /\ UNCHANGED outsideScm

\* handleCommitAll (line 696).
ScmCommitAll ==
    /\ scm.modifiedFiles \cup scm.untrackedFiles # {}
    /\ scm.commitMessage
    /\ LocalCommits(scm.commits) < MaxCommits
    /\ scm' = Tracked([performCommit(scm, scm.modifiedFiles
                                              \cup scm.untrackedFiles)
                          EXCEPT !.stagedFiles = {},
                                 !.modifiedFiles = {},
                                 !.untrackedFiles = {}])
    /\ UNCHANGED outsideScm

\* The remote commits that a render's commits do not hold (lines 697, 698).
newCommits(remote, local) ==
    SelectSeq(remote, LAMBDA rc : \A k \in DOMAIN local : local[k] # rc)

\* handleFetch (line 697): the click starts a timer whose callback holds the
\* remoteCommits and commits of the render of the click.
Fetch ==
    /\ Len(scm.fetches) < MaxFetches
    /\ scm' = [scm EXCEPT !.fetches =
                  Append(@, Len(newCommits(scm.remoteCommits, scm.commits)))]
    /\ UNCHANGED outsideScm

\* The timer of the oldest pending fetch fires (line 697).
FetchDone ==
    /\ scm.fetches # <<>>
    /\ scm' = [scm EXCEPT !.pullableCommits = Head(scm.fetches),
                          !.fetches = Tail(@),
                          !.fetched = TRUE]
    /\ UNCHANGED outsideScm

\* handlePull (line 698), behind the Pull button (lines 377-380).
Pull ==
    /\ scm.pullableCommits # 0
    /\ scm' = [scm EXCEPT
                  !.commits = newCommits(scm.remoteCommits, scm.commits) \o @,
                  !.pullableCommits = 0]
    /\ UNCHANGED outsideScm

ScmNext ==
    \/ \E path \in FilePaths, content \in EditContents :
           ScmEdit(path, content)
    \/ ScmMessage
    \/ \E path \in FilePaths : ScmStage(path)
    \/ \E path \in FilePaths : ScmUnstage(path)
    \/ ScmStageAll
    \/ ScmCommit
    \/ ScmCommitAll
    \/ Fetch
    \/ FetchDone
    \/ Pull

ScmSpec == Init /\ [][ScmNext]_vars

\* ------------------------------------------- the specification's vocabulary

\* The task state of step i.
TaskState(i) ==
    CASE phase[i] \in {"Executing", "Formatting"} -> "Executing"
      [] phase[i] \in {"Cooldown", "Done"} -> "Completed"
      [] OTHER -> phase[i]

\* The steps of plan p whose id step i lists as a dependency, and the steps
\* it depends on through a chain of them.
DirectDeps(p, i) == {j \in 1..Len(p) : p[j].id \in p[i].deps}

RECURSIVE DepsClosure(_, _, _)
DepsClosure(p, S, n) ==
    IF n = 0 THEN S
    ELSE DepsClosure(p, S \cup UNION {DirectDeps(p, j) : j \in S}, n - 1)

TransDeps(p, i) == DepsClosure(p, DirectDeps(p, i), Len(p))

\* What plan ingestion is to reject: two tasks with one id, an agent outside
\* the roster, a dependency id that is no task of the plan.
Malformed(p) ==
    \/ \E i, j \in 1..Len(p) : i # j /\ p[i].id = p[j].id
    \/ \E i \in 1..Len(p) : ~Throws(p[i]) /\ AgentName(p[i]) \notin Roster
    \/ \E i \in 1..Len(p) : \E d \in p[i].deps :
          \A j \in 1..Len(p) : p[j].id # d

Acyclic(p) == \A i \in 1..Len(p) : i \notin TransDeps(p, i)

\* Automatic retries the specification grants a failing task (its 4.4).
MAX_AUTO_RETRIES == 1

\* The loop has halted: no call is in flight.
Halted == pc = "rest"

\* executePlan is running a plan.
Running == pc \in {"prologue1", "prologue2", "loop", "epilogue"}

\* Neither of the steps i and j of plan p depends on the other.
Unrelated(p, i, j) == i \notin TransDeps(p, j) /\ j \notin TransDeps(p, i)

\* The specification's readiness (its 4.2): the task is Queued or Blocked,
\* its agent is Idle and every task it lists as a dependency is Completed.
Ready(i) ==
    /\ TaskState(i) \in {"Queued", "Blocked"}
    /\ AgentName(plan[i]) \in Roster
    /\ agents[AgentName(plan[i])].status = "Idle"
    /\ \A j \in DirectDeps(plan, i) : TaskState(j) = "Completed"

\* The tasks of agent a that are Executing.
ExecutingOf(a) ==
    {i \in Steps : TaskState(i) = "Executing" /\ AgentName(plan[i]) = a}

\* No step of plan p throws: every executor invocation succeeds.
AllSucceed(p) == \A i \in 1..Len(p) : ~Throws(p[i])

\* ------------------------------------------------------------------ claims

\* C1: a task is Executing only while every task it lists as a dependency is
\* Completed (for a plan that ingestion has no reason to reject).
DependencySafety ==
    (~Malformed(plan) /\ Acyclic(plan)) =>
        \A i \in Steps : TaskState(i) = "Executing" =>
            \A j \in DirectDeps(plan, i) : TaskState(j) = "Completed"

\* C2: no two distinct tasks owned by the same agent are Executing at once.
AgentExclusivity ==
    \A i, j \in Steps :
        (i # j /\ TaskState(i) = "Executing" /\ TaskState(j) = "Executing")
            => AgentName(plan[i]) # AgentName(plan[j])

\* A task is Executing while another task of the same agent waits.
AgentExclusivityWitness ==
    \E i, j \in Steps :
        /\ i # j
        /\ TaskState(i) = "Executing"
        /\ TaskState(j) = "Queued"
        /\ AgentName(plan[i]) = AgentName(plan[j])

\* C3: once a task is Failed, no task that depends on it, directly or through
\* a chain of tasks, enters Executing.
TransitiveBlocking ==
    [][\A t \in Steps :
          (\E d \in TransDeps(plan, t) : TaskState(d) = "Failed")
              => ~(/\ TaskState(t) # "Executing"
                   /\ t \in DOMAIN phase'
                   /\ phase'[t] \in {"Executing", "Formatting"})]_vars

\* The loop has halted with a Failed task and a task that depends on it
\* through another task and never ran.
TransitiveBlockingWitness ==
    /\ Halted
    /\ \E t, d \in Steps :
          /\ d \in TransDeps(plan, t)
          /\ d \notin DirectDeps(plan, t)
          /\ TaskState(d) = "Failed"
          /\ TaskState(t) = "Queued"

\* C4: a plan under execution leads to a state where the loop has halted, no
\* task is Executing and no dispatch is possible.
Termination ==
    (pc \in {"prologue1", "prologue2", "loop", "epilogue"})
        ~> (/\ Halted
            /\ \A i \in Steps : TaskState(i) # "Executing"
            /\ ~ENABLED (\E i \in Steps : Dispatch(i)))

\* The loop has halted after it ran every step of a plan of several steps.
TerminationWitness ==
    /\ Halted
    /\ Len(plan) > 1
    /\ \A i \in Steps : phase[i] = "Done"

\* C6: a task ends Failed only after its automatic retries are used up: it
\* was dispatched MAX_AUTO_RETRIES + 1 times.
RetryPolicy ==
    \A i \in Steps :
        TaskState(i) = "Failed" => dispatches[i] = MAX_AUTO_RETRIES + 1

\* C9: when the loop has halted, every task that does not depend on a Failed
\* task, directly or through other tasks, and whose own step does not fail
\* is Completed.
FailureContainment ==
    Halted =>
        \A t \in Steps :
            (/\ ~Throws(plan[t])
             /\ \A d \in TransDeps(plan, t) : TaskState(d) # "Failed")
                => TaskState(t) = "Completed"

\* C10: of a plan that ingestion is to reject no task is shown, no task is
\* dispatched and no agent is taken out of Idle.
PlanRejection ==
    Malformed(plan) =>
        /\ \A i \in Steps : phase[i] = "Queued" /\ dispatches[i] = 0
        /\ \A a \in Roster : agents[a].status = "Idle"
        /\ ~messages[Len(messages)].showsPlan

\* C11: while the loop runs, a ready task is dispatched at once when its
\* idle agent is not the agent of a task that is Executing and neither task
\* depends on the other: an executor call in flight does not delay it.
ParallelDispatch ==
    (pc = "loop" /\ ~Malformed(plan) /\ AllSucceed(plan)) =>
        \A i, j \in Steps :
            (/\ TaskState(i) = "Executing"
             /\ Ready(j)
             /\ Unrelated(plan, i, j)
             /\ AgentName(plan[i]) # AgentName(plan[j]))
                => ENABLED Dispatch(j)

\* C12: an accepted acyclic plan none of whose executor invocations fails
\* leads to the loop halted with every task Completed and success reported
\* (no error message ends the transcript).
SuccessLiveness ==
    (Running /\ ~Malformed(plan) /\ Acyclic(plan) /\ AllSucceed(plan))
        ~> (/\ Halted
            /\ \A i \in Steps : TaskState(i) = "Completed"
            /\ messages # <<>>
            /\ messages[Len(messages)].sender = "ai")

\* The loop has halted with success after a plan of two tasks the second of
\* which depends on the first.
SuccessLivenessWitness ==
    /\ Halted
    /\ Len(plan) > 1
    /\ ~Malformed(plan) /\ Acyclic(plan) /\ AllSucceed(plan)
    /\ \E i \in Steps : DirectDeps(plan, i) # {}
    /\ \A i \in Steps : TaskState(i) = "Completed"
    /\ messages[Len(messages)].sender = "ai"

\* C13 as stated: every agent is Active (the specification's Working) if and
\* only if exactly one task it owns is Executing, and Idle if and only if
\* none is.
AgentStatusAsStated ==
    \A a \in Roster :
        /\ agents[a].status = "Active" <=> Cardinality(ExecutingOf(a)) = 1
        /\ agents[a].status = "Idle" <=> ExecutingOf(a) = {}

\* C13 as amended: the same, except that the Orchestrator is also Active,
\* with no task Executing, while executePlan is in its prologue (up to its
\* first delay) and in its epilogue.
AgentStatusConsistency ==
    \A a \in Roster :
        LET announcing ==
                a = "Orchestrator" /\ pc \in {"prologue1", "epilogue"}
        IN /\ agents[a].status = "Active" <=>
                  (Cardinality(ExecutingOf(a)) = 1 \/ announcing)
           /\ agents[a].status = "Idle" <=>
                  (ExecutingOf(a) = {} /\ ~announcing)

\* An agent other than the Orchestrator is Active with its one Executing
\* task while a task is Completed and another waits.
AgentStatusConsistencyWitness ==
    \E a \in Roster \ {"Orchestrator"} :
        /\ agents[a].status = "Active"
        /\ Cardinality(ExecutingOf(a)) = 1
        /\ \E i, j \in Steps :
              TaskState(i) = "Completed" /\ TaskState(j) = "Queued"

\* C14: while the loop is at its steps, the tasks it is about to start are
\* the ready ones (Queued or Blocked, agent Idle, every dependency
\* Completed): a task it is about to start is ready, and a ready task that
\* shares its agent with no other ready task is about to start.
ReadinessEvaluator ==
    (pc \in {"prologue2", "loop"} /\ ~Malformed(plan) /\ AllSucceed(plan)) =>
        \A i \in Steps :
            /\ ENABLED Dispatch(i) => Ready(i)
            /\ (/\ Ready(i)
                /\ \A j \in Steps \ {i} :
                      Ready(j) => AgentName(plan[j]) # AgentName(plan[i]))
                   => ENABLED Dispatch(i)

\* C15: of several ready tasks of one idle agent the loop starts the one
\* with the smallest id: it is not about to start one of them while another
\* has a smaller id.
TieBreak ==
    (pc \in {"prologue2", "loop"} /\ ~Malformed(plan) /\ AllSucceed(plan)) =>
        \A i, j \in Steps :
            (/\ Ready(i) /\ Ready(j)
             /\ AgentName(plan[i]) = AgentName(plan[j])
             /\ plan[i].id < plan[j].id)
                => ~ENABLED Dispatch(j)

\* C16: when a plan is accepted, the steps the loop has before it are the
\* steps of that plan alone, each Queued and not yet dispatched, and no agent
\* but the Orchestrator, which announces the plan, is Active or holds a task.
WholesaleReplacement ==
    [][(pc = "planning" /\ pc' = "prologue1") =>
          /\ messages'[Len(messages')].showsPlan
          /\ DOMAIN phase' = DOMAIN plan'
          /\ DOMAIN dispatches' = DOMAIN plan'
          /\ \A i \in DOMAIN plan' :
                phase'[i] = "Queued" /\ dispatches'[i] = 0
          /\ \A a \in Roster \ {"Orchestrator"} :
                agents'[a] = [status |-> "Idle", task |-> NoTask]]_vars

\* A second plan has been accepted after a first one had run steps: the
\* transcript shows two plans and the loop has not started.
WholesaleReplacementWitness ==
    /\ pc = "prologue1"
    /\ goals = 2
    /\ Len(plan) > 1
    /\ \E k \in 1..(Len(messages) - 1) : messages[k].showsPlan
    /\ files[PackageJson] # "initial"

\* C17: when a WRITE_FILE step with a path and a content is reported done
\* (its agent is set Idle), the file tree has a file at the step's path and
\* the file holds the step's content as formatted for the path's extension.
WriteEffect ==
    [][\A i \in Steps :
          (/\ TaskState(i) = "Executing"
           /\ i \in DOMAIN phase'
           /\ phase'[i] = "Cooldown"
           /\ Writes(plan[i]))
              => /\ plan[i].path \in DOMAIN files'
                 /\ files'[plan[i].path] =
                        formatCodeWithPrettier(plan[i].content,
                                               Extension(plan[i].path))]_vars

\* C18: a task is Blocked if and only if one of the tasks it lists as a
\* dependency is Failed and the task itself is neither Completed nor Failed.
FailurePropagation ==
    ~Malformed(plan) =>
        \A t \in Steps :
            TaskState(t) = "Blocked" <=>
                /\ TaskState(t) \notin {"Completed", "Failed"}
                /\ \E d \in DirectDeps(plan, t) : TaskState(d) = "Failed"

\* C19: when the loop halts, no task is Executing, every task is Completed,
\* Failed or Blocked, and success is reported (the call ends without an
\* error message) if and only if every task is Completed.
TerminationCheck ==
    [][(Running /\ pc' = "rest" /\ ~Malformed(plan)) =>
          /\ \A i \in Steps :
                TaskState(i)' \in {"Completed", "Failed", "Blocked"}
          /\ (messages' = messages) <=>
                 \A i \in Steps : TaskState(i)' = "Completed"]_vars

\* C20: while a plan is executed, every change of a task's state is one of
\* the transitions of the specification's task state machine.
LegalTransitions ==
    [][(Running /\ plan' = plan) =>
          \A i \in Steps :
              \/ TaskState(i)' = TaskState(i)
              \/ <<TaskState(i), TaskState(i)'>> \in
                     {<<"Queued", "Executing">>, <<"Blocked", "Executing">>,
                      <<"Blocked", "Queued">>, <<"Queued", "Blocked">>,
                      <<"Executing", "Completed">>, <<"Executing", "Queued">>,
                      <<"Executing", "Failed">>, <<"Failed", "Queued">>}]_vars

\* C21: the loop never rests while a task is ready with an idle agent: when
\* it has halted, no task of the plan is ready.
NoLostWakeup ==
    (Halted /\ ~Malformed(plan)) => \A i \in Steps : ~Ready(i)

\* C22: the terminal log of the part_000 App holds at most 100 entries, the
\* most recent ones in the order of their arrival.
LogRetention ==
    /\ Len(logs) <= 100
    /\ \A k \in 1..(Len(logs) - 1) : logs[k + 1] = logs[k] + 1

\* C23: when the loop has halted on an acceptable acyclic plan with no task
\* Executing and no task ready, every task is Completed, Failed or Blocked:
\* none is left Queued.
Quiescence ==
    (/\ Halted
     /\ ~Malformed(plan) /\ Acyclic(plan)
     /\ \A i \in Steps : TaskState(i) # "Executing" /\ ~Ready(i))
        => \A i \in Steps :
               TaskState(i) \in {"Completed", "Failed", "Blocked"}

\* C24: the steps run in array order and one at a time: a step has started
\* only if the agent of every step before it has been set back to Idle, and
\* at most one agent is Active.
SequentialOrder ==
    /\ Cardinality({a \in Roster : agents[a].status = "Active"}) <= 1
    /\ \A i, j \in Steps :
          (i < j /\ phase[j] # "Queued") => TaskState(i) = "Completed"

\* The second step of a plan is Executing with its agent Active after the
\* first step, of another agent, was Completed.
SequentialOrderWitness ==
    \E i, j \in Steps :
        /\ i < j
        /\ TaskState(i) = "Completed"
        /\ TaskState(j) = "Executing"
        /\ AgentName(plan[i]) \in Roster \ {AgentName(plan[j])}
        /\ AgentName(plan[j]) \in Roster
        /\ agents[AgentName(plan[j])].status = "Active"

\* C25: when no handleSendMessage call is in flight, isLoading is false,
\* every agent is Idle with no task label, and no step after a step that
\* threw was started.
ReturnToRest ==
    Halted =>
        /\ isLoading = FALSE
        /\ \A a \in Roster : agents[a] = [status |-> "Idle", task |-> NoTask]
        /\ \A i, j \in Steps :
              (i < j /\ TaskState(i) = "Failed")
                  => phase[j] = "Queued" /\ dispatches[j] = 0

\* A call has settled after the second step of its plan threw: the first
\* step is Completed, the third was never started, and a goal whose planner
\* call failed has settled before it.
ReturnToRestWitness ==
    /\ Halted
    /\ goals = 2
    /\ Len(messages) = 5
    /\ messages[2].sender = "system"
    /\ \E i, j, k \in Steps :
          /\ i < j /\ j < k
          /\ TaskState(i) = "Completed"
          /\ TaskState(j) = "Failed"
          /\ TaskState(k) = "Queued"

\* C27: a goal is accepted only while no call is in flight, isLoading is
\* true for as long as a call is in flight, and the plan is replaced only
\* when the planner's answer arrives.
OnePlanAtATime ==
    [][/\ pc # "rest" => isLoading
       /\ goals' # goals => (pc = "rest" /\ ~isLoading)
       /\ plan' # plan => pc = "planning"]_vars

\* A second plan is executed after the first one has ended.
OnePlanAtATimeWitness ==
    /\ goals = 2
    /\ isLoading
    /\ pc = "loop"
    /\ \E k \in 1..(Len(messages) - 1) : messages[k].showsPlan
    /\ \E i \in Steps : TaskState(i) = "Executing"

\* C26: after every step of the program the file in the editor, if any, has
\* the content that the tree stores for its path, and a WRITE_FILE step that
\* is reported done has changed the content of no file but the one at its
\* path.
SelectedFileConsistency ==
    [][/\ selectedFile' # NoFile =>
             /\ selectedFile'.path \in DOMAIN files'
             /\ selectedFile'.content = files'[selectedFile'.path]
       /\ \A i \in Steps :
             (/\ TaskState(i) = "Executing"
              /\ i \in DOMAIN phase'
              /\ phase'[i] = "Cooldown")
                 => \A q \in DOMAIN files \ {plan[i].path} :
                        files'[q] = files[q]]_vars

\* C28: a commit records the staged paths only: a path that gitStatus
\* reports as modified or untracked and that is not staged is still reported
\* after the commit, and no path is staged after it.
CommitScope ==
    [][(isRepoInitialized /\ commits' > commits) =>
          /\ stagedFiles' = {}
          /\ \A p \in (gitStatus.modified \cup gitStatus.untracked)
                          \ stagedFiles :
                 p \in gitStatus'.modified \cup gitStatus'.untracked]_vars

\* C29: every file that has never been committed is listed as untracked or
\* as staged, and the staged, modified and untracked lists are pairwise
\* disjoint.
NoLostChange ==
    /\ \A p \in DOMAIN scm.files :
           p \notin DOMAIN scm.originalFileContents =>
               p \in scm.untrackedFiles \cup scm.stagedFiles
    /\ scm.stagedFiles \cap scm.modifiedFiles = {}
    /\ scm.stagedFiles \cap scm.untrackedFiles = {}
    /\ scm.modifiedFiles \cap scm.untrackedFiles = {}

\* C30: once a fetch has completed and none is pending, pullableCommits is
\* the number of remote commits absent from the local commits, and no id
\* is twice in commits.
PullableCountAccuracy ==
    /\ (scm.fetched /\ scm.fetches = <<>>) =>
           scm.pullableCommits
               = Len(newCommits(scm.remoteCommits, scm.commits))
    /\ \A j, k \in DOMAIN scm.commits :
           scm.commits[j] = scm.commits[k] => j = k

====
